---- MODULE Spec2Model ----
(***************************************************************************)
(* Model of the two heatpump scripts, py/capture.py and py/send.py.        *)
(*                                                                         *)
(* Each script is a sequential program; pc is the statement about to run.  *)
(* The device, the clock and the two standard streams are the environment: *)
(* every call into them is one event of trace, the record of what the      *)
(* process has done so far.  Text is a sequence of one-character strings,  *)
(* a byte sequence is a sequence of numbers in 0..255.                     *)
(***************************************************************************)
EXTENDS Integers, Sequences, FiniteSets

VARIABLES
    script,     \* which script runs: "capture" or "send"
    pc,         \* the statement about to run, "done" (exit 0) or "crashed"
    authed,     \* dev.auth() has returned
    data,       \* capture.py: data (line 11); send.py: data (line 9)
    hexdata,    \* capture.py: hexdata (line 16)
    line,       \* send.py: the loop variable line (line 8)
    stdin,      \* send.py: the lines of sys.stdin
    pos,        \* send.py: how many lines of sys.stdin have been read
    stdoutbuf,  \* lines held in sys.stdout's buffer, not yet written out
    exc,        \* the exception that ended the process, or "none"
    trace,      \* the calls made so far, in order (the first Capacity of them)
    dropped     \* a call was made after trace was full

vars == <<script, pc, authed, data, hexdata, line, stdin, pos, stdoutbuf,
          exc, trace, dropped>>

----------------------------------------------------------------------------
(* Bounds *)

\* How many calls of capture.py trace records; its later calls happen but
\* are not recorded.
MaxTrace == 12
\* The most lines sys.stdin holds.
MaxLines == 3
\* The longest line body (before the line end) of the decoding runs.
MaxText == 5
\* The longest byte sequence of the rendering runs.
MaxBytes == 3
\* The longest line body of the letter-case runs.
MaxHex == 4

----------------------------------------------------------------------------
(* Text and bytes *)

HexLower == <<"0", "1", "2", "3", "4", "5", "6", "7",
              "8", "9", "a", "b", "c", "d", "e", "f">>
HexUpper == <<"0", "1", "2", "3", "4", "5", "6", "7",
              "8", "9", "A", "B", "C", "D", "E", "F">>

Range(s) == {s[i] : i \in 1..Len(s)}

\* The characters str.rstrip() removes and bytearray.fromhex() skips.
Whitespace == {" ", "\t", "\n", "\r", "\f"}

IsHexDigit(c) == c \in Range(HexLower) \cup Range(HexUpper)

\* DigitValue knowing the lowercase digits only.
DigitValueLowerOnly(c) ==
    IF c \in Range(HexLower)
    THEN (CHOOSE i \in 1..16 : HexLower[i] = c) - 1
    ELSE 0

\* The value of a hexadecimal digit, either case.
DigitValue(c) ==
    IF c \in Range(HexLower)
    THEN (CHOOSE i \in 1..16 : HexLower[i] = c) - 1
    ELSE (CHOOSE i \in 1..16 : HexUpper[i] = c) - 1

\* Format02x with the two digits in the wrong order.
FormatLowNibbleFirst(x) == <<HexLower[(x % 16) + 1], HexLower[(x \div 16) + 1]>>

\* Format02x with format(x, 'x'): no padding to two digits.
FormatUnpadded(x) ==
    IF x < 16 THEN <<HexLower[x + 1]>>
    ELSE <<HexLower[(x \div 16) + 1], HexLower[(x % 16) + 1]>>

\* format(x, '02x'): two lowercase digits, the high nibble first.
Format02x(x) == <<HexLower[(x \div 16) + 1], HexLower[(x % 16) + 1]>>

\* bytearray(data): the bytes of data, each in 0..255.
ByteArray(d) == [i \in 1..Len(d) |-> d[i] % 256]

RECURSIVE JoinHexSpaced(_)
\* JoinHex with ' '.join for ''.join: a space between the bytes.
JoinHexSpaced(b) ==
    IF b = <<>> THEN <<>>
    ELSE IF Len(b) = 1 THEN Format02x(Head(b))
    ELSE Format02x(Head(b)) \o <<" ">> \o JoinHexSpaced(Tail(b))

RECURSIVE JoinHex(_)
\* ''.join(format(x, '02x') for x in b)
JoinHex(b) == IF b = <<>> THEN <<>> ELSE Format02x(Head(b)) \o JoinHex(Tail(b))

RECURSIVE RStrip(_)
\* line.rstrip(): the text without its trailing whitespace.
RStrip(s) ==
    IF s # <<>> /\ s[Len(s)] \in Whitespace
    THEN RStrip(SubSeq(s, 1, Len(s) - 1))
    ELSE s

RECURSIVE SkipSpace(_)
SkipSpace(s) == IF s # <<>> /\ Head(s) \in Whitespace THEN SkipSpace(Tail(s)) ELSE s

RECURSIVE FromHexFrom(_, _)
\* bytearray.fromhex from text s on, with the bytes acc decoded so far:
\* whitespace is skipped before each pair of digits, never inside one.
FromHexFrom(s, acc) ==
    LET t == SkipSpace(s) IN
    IF t = <<>> THEN [ok |-> TRUE, bytes |-> acc]
    ELSE IF Len(t) < 2 \/ ~IsHexDigit(t[1]) \/ ~IsHexDigit(t[2])
    THEN [ok |-> FALSE, bytes |-> <<>>]
    ELSE FromHexFrom(SubSeq(t, 3, Len(t)),
                     Append(acc, 16 * DigitValue(t[1]) + DigitValue(t[2])))

\* FromHex accepting digits only: any other character is an error.
FromHexDigitsOnly(s) ==
    IF \A i \in DOMAIN s : IsHexDigit(s[i]) THEN FromHexFrom(s, <<>>)
    ELSE [ok |-> FALSE, bytes |-> <<>>]

\* bytearray.fromhex(s): ok and the bytes, or not ok (ValueError).
FromHex(s) == FromHexFrom(s, <<>>)

SentText == <<"S", "e", "n", "t">>

----------------------------------------------------------------------------
(* The inputs the environment supplies *)

RECURSIVE SeqsUpTo(_, _)
\* The sequences over S of length at most n.
SeqsUpTo(S, n) ==
    IF n = 0 THEN {<<>>}
    ELSE LET R == SeqsUpTo(S, n - 1) IN
         R \cup {Append(r, x) : r \in {q \in R : Len(q) = n - 1}, x \in S}

\* What a successful check_data returns: byte sequences of length 0 to 3,
\* among them bytes below 0x10 and bytes whose two nibbles differ.
Codes ==
    { <<>>, <<10>>, <<161>>, <<26, 43>>, <<43, 26>>, <<255, 0, 10>> }

\* Byte sequences of the rendering runs: every single byte, and every
\* sequence of up to MaxBytes bytes among 0x00, 0x0a, 0xa1 and 0xff.
HexCodes ==
    {<<x>> : x \in 0..255} \cup SeqsUpTo({0, 10, 161, 255}, MaxBytes)

NL == <<"\n">>
\* Lines of the send runs: well-formed, odd, non-hex, spaced and blank ones.
SendLines ==
    { <<"1", "a", "2", "b">> \o NL,
      <<"F", "F", "0", "0">> \o NL,
      <<"1", "a", " ">> \o NL,
      <<"1", "a", "2">> \o NL,
      <<"1", "g">> \o NL,
      <<"1", "a", " ", "2", "b">> \o NL,
      <<" ", "1", "a">> \o NL,
      NL }
Inputs == SeqsUpTo(SendLines, MaxLines)

\* Characters of the decoding runs: digits of both cases, a non-digit, a space.
TextChars == {"1", "a", "F", "g", " "}
\* One-line inputs, every body over TextChars, with or without a line end.
DecodeInputs ==
    {<<t \o NL>> : t \in SeqsUpTo(TextChars, MaxText)}
    \cup {<<t>> : t \in SeqsUpTo(TextChars, MaxText) \ {<<>>}}

----------------------------------------------------------------------------
(* The record of calls *)

Ev(op, arg, res) == [op |-> op, arg |-> arg, res |-> res]

\* How many calls trace holds: capture.py runs without end, send.py makes
\* at most five calls per input line, two at start-up and one at exit.
Capacity == IF script = "capture" THEN MaxTrace ELSE 3 + 5 * Len(stdin)

\* trace after the calls es: recorded whole, or not at all once trace is full.
Record(es) ==
    IF ~dropped /\ Len(trace) + Len(es) <= Capacity
    THEN trace' = trace \o es /\ dropped' = dropped
    ELSE trace' = trace /\ dropped' = TRUE

\* An uncaught exception e raised by the call ev: the interpreter writes out
\* what sys.stdout still holds and exits with a non-zero code.
Die(e, ev) ==
    /\ pc' = "crashed"
    /\ exc' = e
    /\ stdoutbuf' = <<>>
    /\ Record(<<ev>> \o (IF stdoutbuf # <<>>
                         THEN <<Ev("flush", <<>>, "exit")>> ELSE <<>>))

\* print(text): text goes to sys.stdout's buffer, which a line-buffered
\* stream (a terminal) writes out at once and a pipe or a file does not.
StdoutPrint(text, next) ==
    /\ pc' = next
    /\ \E tty \in BOOLEAN :
         IF tty
         THEN /\ stdoutbuf' = <<>>
              /\ Record(<<Ev("print", text, "ok"), Ev("flush", <<>>, "auto")>>)
         ELSE /\ stdoutbuf' = Append(stdoutbuf, text)
              /\ Record(<<Ev("print", text, "ok")>>)

----------------------------------------------------------------------------
(* Start-up, common to both scripts: lines 4 and 5 *)

Hello ==
    /\ pc = "hello"
    /\ \/ /\ pc' = "auth"
          /\ Record(<<Ev("hello", <<>>, "ok")>>)
          /\ UNCHANGED <<stdoutbuf, exc>>
       \/ Die("NetworkTimeoutError", Ev("hello", <<>>, "error"))
    /\ UNCHANGED <<script, authed, data, hexdata, line, stdin, pos>>

\* Auth with the failure of dev.auth() swallowed: the script goes on.
AuthFailureIgnored ==
    /\ pc = "auth"
    /\ pc' = IF script = "capture" THEN "enter_learning" ELSE "readline"
    /\ \/ /\ authed' = TRUE
          /\ Record(<<Ev("auth", <<>>, "ok")>>)
       \/ /\ Record(<<Ev("auth", <<>>, "error")>>)
          /\ UNCHANGED authed
    /\ UNCHANGED <<script, data, hexdata, line, stdin, pos, stdoutbuf, exc>>

Auth ==
    /\ pc = "auth"
    /\ \/ /\ authed' = TRUE
          /\ pc' = IF script = "capture" THEN "enter_learning" ELSE "readline"
          /\ Record(<<Ev("auth", <<>>, "ok")>>)
          /\ UNCHANGED <<stdoutbuf, exc>>
       \/ /\ Die("AuthenticationError", Ev("auth", <<>>, "error"))
          /\ UNCHANGED authed
    /\ UNCHANGED <<script, data, hexdata, line, stdin, pos>>

----------------------------------------------------------------------------
(* capture.py *)

\* dev.enter_learning(), called at line 8 and at line 19.
CallEnterLearning ==
    /\ \/ /\ pc' = "check_data"
          /\ Record(<<Ev("enter_learning", <<>>, "ok")>>)
          /\ UNCHANGED <<stdoutbuf, exc>>
       \/ Die("DeviceIOError", Ev("enter_learning", <<>>, "error"))
    /\ UNCHANGED <<script, authed, data, hexdata, line, stdin, pos>>

\* Line 8
EnterLearning ==
    /\ pc = "enter_learning"
    /\ CallEnterLearning

\* CheckData with "except Exception:" at line 12: every exception is retried.
CheckDataCatchAll ==
    /\ pc = "check_data"
    /\ \/ \E d \in Codes :
            /\ data' = d
            /\ pc' = "hexdata"
            /\ Record(<<Ev("check_data", d, "ok")>>)
       \/ /\ pc' = "sleep"
          /\ Record(<<Ev("check_data", <<>>, "StorageError")>>)
          /\ UNCHANGED data
       \/ /\ pc' = "sleep"
          /\ Record(<<Ev("check_data", <<>>, "error")>>)
          /\ UNCHANGED data
    /\ UNCHANGED <<script, authed, hexdata, line, stdin, pos, stdoutbuf, exc>>

\* Lines 10-12: data, the storage-empty exception, or another exception.
CheckData ==
    /\ pc = "check_data"
    /\ \/ \E d \in Codes :
            /\ data' = d
            /\ pc' = "hexdata"
            /\ Record(<<Ev("check_data", d, "ok")>>)
            /\ UNCHANGED <<stdoutbuf, exc>>
       \/ /\ pc' = "sleep"
          /\ Record(<<Ev("check_data", <<>>, "StorageError")>>)
          /\ UNCHANGED <<data, stdoutbuf, exc>>
       \/ /\ Die("DeviceIOError", Ev("check_data", <<>>, "error"))
          /\ UNCHANGED data
    /\ UNCHANGED <<script, authed, hexdata, line, stdin, pos>>

\* Sleep with the loop restarted from line 8: learning mode armed again.
SleepThenRearm ==
    /\ pc = "sleep"
    /\ pc' = "rearm"
    /\ Record(<<Ev("sleep", <<>>, "ok")>>)
    /\ UNCHANGED <<script, authed, data, hexdata, line, stdin, pos, stdoutbuf, exc>>

\* Sleep with "break" for "continue" at line 14: the loop ends, exit 0.
SleepThenBreak ==
    /\ pc = "sleep"
    /\ pc' = "done"
    /\ Record(<<Ev("sleep", <<>>, "ok")>>)
    /\ UNCHANGED <<script, authed, data, hexdata, line, stdin, pos, stdoutbuf, exc>>

\* Lines 13-14: time.sleep(0.5); continue
Sleep ==
    /\ pc = "sleep"
    /\ pc' = "check_data"
    /\ Record(<<Ev("sleep", <<>>, "ok")>>)
    /\ UNCHANGED <<script, authed, data, hexdata, line, stdin, pos, stdoutbuf, exc>>

\* Line 16
HexData ==
    /\ pc = "hexdata"
    /\ hexdata' = JoinHex(ByteArray(data))
    /\ pc' = "print"
    /\ UNCHANGED <<script, authed, data, line, stdin, pos, stdoutbuf, exc,
                   trace, dropped>>

\* Line 17
PrintHex ==
    /\ pc = "print"
    /\ StdoutPrint(hexdata, "flush")
    /\ UNCHANGED <<script, authed, data, hexdata, line, stdin, pos, exc>>

\* Flush with line 18 missing.
FlushOmitted ==
    /\ pc = "flush"
    /\ pc' = "rearm"
    /\ UNCHANGED <<script, authed, data, hexdata, line, stdin, pos, stdoutbuf,
                   exc, trace, dropped>>

\* Line 18
Flush ==
    /\ pc = "flush"
    /\ pc' = "rearm"
    /\ stdoutbuf' = <<>>
    /\ Record(<<Ev("flush", <<>>, "ok")>>)
    /\ UNCHANGED <<script, authed, data, hexdata, line, stdin, pos, exc>>

\* Rearm with line 19 missing.
RearmOmitted ==
    /\ pc = "rearm"
    /\ pc' = "check_data"
    /\ UNCHANGED <<script, authed, data, hexdata, line, stdin, pos, stdoutbuf,
                   exc, trace, dropped>>

\* Line 19
Rearm ==
    /\ pc = "rearm"
    /\ CallEnterLearning

----------------------------------------------------------------------------
(* send.py *)

\* ReadLine with a second read in the loop body: every other line is lost.
ReadLineSkipping ==
    /\ pc = "readline"
    /\ \/ /\ pos + 1 < Len(stdin)
          /\ line' = stdin[pos + 2]
          /\ pos' = pos + 2
          /\ pc' = "fromhex"
          /\ Record(<<Ev("readline", stdin[pos + 2], "ok")>>)
          /\ UNCHANGED stdoutbuf
       \/ /\ pos + 1 >= Len(stdin)
          /\ pc' = "done"
          /\ stdoutbuf' = <<>>
          /\ Record(IF stdoutbuf # <<>> THEN <<Ev("flush", <<>>, "exit")>> ELSE <<>>)
          /\ UNCHANGED <<line, pos>>
    /\ UNCHANGED <<script, authed, data, hexdata, stdin, exc>>

\* Line 8: the next line of sys.stdin, or the end of the loop and exit 0.
ReadLine ==
    /\ pc = "readline"
    /\ \/ /\ pos < Len(stdin)
          /\ line' = stdin[pos + 1]
          /\ pos' = pos + 1
          /\ pc' = "fromhex"
          /\ Record(<<Ev("readline", stdin[pos + 1], "ok")>>)
          /\ UNCHANGED stdoutbuf
       \/ /\ pos = Len(stdin)
          /\ pc' = "done"
          /\ stdoutbuf' = <<>>
          /\ Record(IF stdoutbuf # <<>> THEN <<Ev("flush", <<>>, "exit")>> ELSE <<>>)
          /\ UNCHANGED <<line, pos>>
    /\ UNCHANGED <<script, authed, data, hexdata, stdin, exc>>

\* Decode with the ValueError caught and the line skipped.
DecodeSkippingBadLines ==
    /\ pc = "fromhex"
    /\ LET s == RStrip(line)
           r == FromHex(s) IN
       \/ /\ r.ok
          /\ data' = r.bytes
          /\ pc' = "send_data"
          /\ Record(<<Ev("fromhex", s, "ok")>>)
       \/ /\ ~r.ok
          /\ pc' = "readline"
          /\ Record(<<Ev("fromhex", s, "ValueError")>>)
          /\ UNCHANGED data
    /\ UNCHANGED <<script, authed, hexdata, line, stdin, pos, stdoutbuf, exc>>

\* Decode with "if not line.strip(): continue": blank lines are skipped.
DecodeSkippingBlankLines ==
    /\ pc = "fromhex"
    /\ LET s == RStrip(line)
           r == FromHex(s) IN
       \/ /\ s = <<>>
          /\ pc' = "readline"
          /\ UNCHANGED <<data, stdoutbuf, exc, trace, dropped>>
       \/ /\ s # <<>>
          /\ r.ok
          /\ data' = r.bytes
          /\ pc' = "send_data"
          /\ Record(<<Ev("fromhex", s, "ok")>>)
          /\ UNCHANGED <<stdoutbuf, exc>>
       \/ /\ s # <<>>
          /\ ~r.ok
          /\ Die("ValueError", Ev("fromhex", s, "ValueError"))
          /\ UNCHANGED data
    /\ UNCHANGED <<script, authed, hexdata, line, stdin, pos>>

\* Line 9
Decode ==
    /\ pc = "fromhex"
    /\ LET s == RStrip(line)
           r == FromHex(s) IN
       \/ /\ r.ok
          /\ data' = r.bytes
          /\ pc' = "send_data"
          /\ Record(<<Ev("fromhex", s, "ok")>>)
          /\ UNCHANGED <<stdoutbuf, exc>>
       \/ /\ ~r.ok
          /\ Die("ValueError", Ev("fromhex", s, "ValueError"))
          /\ UNCHANGED data
    /\ UNCHANGED <<script, authed, hexdata, line, stdin, pos>>

\* SendData with the failure of dev.send_data() caught: the loop goes on.
SendDataFailureIgnored ==
    /\ pc = "send_data"
    /\ pc' = "print_sent"
    /\ \/ Record(<<Ev("send_data", data, "ok")>>)
       \/ Record(<<Ev("send_data", data, "error")>>)
    /\ UNCHANGED <<script, authed, data, hexdata, line, stdin, pos, stdoutbuf, exc>>

\* Line 10
SendData ==
    /\ pc = "send_data"
    /\ \/ /\ pc' = "print_sent"
          /\ Record(<<Ev("send_data", data, "ok")>>)
          /\ UNCHANGED <<stdoutbuf, exc>>
       \/ Die("DeviceIOError", Ev("send_data", data, "error"))
    /\ UNCHANGED <<script, authed, data, hexdata, line, stdin, pos>>

\* Line 11
PrintSent ==
    /\ pc = "print_sent"
    /\ StdoutPrint(SentText, "readline")
    /\ UNCHANGED <<script, authed, data, hexdata, line, stdin, pos, exc>>

----------------------------------------------------------------------------
(* Specifications *)

Start(s, in) ==
    /\ script = s
    /\ pc = "hello"
    /\ authed = FALSE
    /\ data = <<>>
    /\ hexdata = <<>>
    /\ line = <<>>
    /\ stdin = in
    /\ pos = 0
    /\ stdoutbuf = <<>>
    /\ exc = "none"
    /\ trace = <<>>
    /\ dropped = FALSE

InitCapture == Start("capture", <<>>)
InitSend == \E in \in Inputs : Start("send", in)
InitDecode == \E in \in DecodeInputs : Start("send", in)
\* capture.py just after check_data returned the code b (line 11).
InitRender ==
    \E b \in HexCodes :
      /\ script = "capture"
      /\ pc = "hexdata"
      /\ authed = TRUE
      /\ data = b
      /\ hexdata = <<>>
      /\ line = <<>>
      /\ stdin = <<>>
      /\ pos = 0
      /\ stdoutbuf = <<>>
      /\ exc = "none"
      /\ trace = <<Ev("hello", <<>>, "ok"), Ev("auth", <<>>, "ok"),
                   Ev("enter_learning", <<>>, "ok"), Ev("check_data", b, "ok")>>
      /\ dropped = FALSE
\* Empty and whitespace-only lines, and a line with a code.
BlankLines ==
    { NL, <<" ">> \o NL, <<" ", " ">> \o NL, <<"1", "a", "2", "b">> \o NL }
\* send.py on input with blank lines.
InitBlank == \E in \in SeqsUpTo(BlankLines, MaxLines) : Start("send", in)
\* Hexadecimal digits in both cases.
CaseChars == {"0", "a", "A", "f", "F"}
\* send.py reading one line of digits in any mix of cases.
InitCase ==
    \E t \in SeqsUpTo(CaseChars, MaxHex) : Start("send", <<t \o NL>>)
\* send.py reading one line that capture.py printed for a code b.
InitRoundTrip ==
    \E b \in HexCodes : Start("send", <<JoinHex(ByteArray(b)) \o NL>>)
Init == InitCapture \/ InitSend

NextCapture ==
    \/ Hello \/ Auth \/ EnterLearning \/ CheckData \/ Sleep
    \/ HexData \/ PrintHex \/ Flush \/ Rearm

NextSend ==
    \/ Hello \/ Auth \/ ReadLine \/ Decode \/ SendData \/ PrintSent

Next ==
    \/ Hello \/ Auth
    \/ EnterLearning \/ CheckData \/ Sleep \/ HexData \/ PrintHex \/ Flush \/ Rearm
    \/ ReadLine \/ Decode \/ SendData \/ PrintSent

\* Either script, on every input.
Spec == Init /\ [][Next]_vars
\* capture.py alone.
SpecCapture == InitCapture /\ [][NextCapture]_vars
\* send.py alone.
SpecSend == InitSend /\ [][NextSend]_vars
\* send.py on every one-line input over TextChars.
SpecDecode == InitDecode /\ [][NextSend]_vars
\* Lines 16 to 18 of capture.py.
NextRender == HexData \/ PrintHex \/ Flush
\* capture.py from a poll that returned data to the write-out of its line.
SpecRender == InitRender /\ [][NextRender]_vars
\* send.py on input with blank lines.
SpecBlank == InitBlank /\ [][NextSend]_vars
\* send.py on every one-line input of digits in mixed case.
SpecCase == InitCase /\ [][NextSend]_vars
\* send.py fed the output of capture.py.
SpecRoundTrip == InitRoundTrip /\ [][NextSend]_vars
\* capture.py as a running process: it always takes its next step.
FairCapture == InitCapture /\ [][NextCapture]_vars /\ WF_vars(NextCapture)
\* send.py as a running process: it always takes its next step.
FairSend == InitSend /\ [][NextSend]_vars /\ WF_vars(NextSend)

----------------------------------------------------------------------------
(* Reading the record of calls *)

Last == trace[Len(trace)]
Poll(e) == e.op = "check_data"
EmptyPoll(e) == e.op = "check_data" /\ e.res = "StorageError"
DataPoll(e) == e.op = "check_data" /\ e.res = "ok"
Wait(e) == e.op = "sleep"
Arm(e) == e.op = "enter_learning"
Printed(e) == e.op = "print"
Flushed(e) == e.op = "flush"
\* A device call of the capture loop that raised anything but StorageError.
Fatal(e) == e.op \in {"enter_learning", "check_data"} /\ e.res = "error"

\* How many of the first n recorded calls satisfy P.
CountUpTo(n, P(_)) == Cardinality({i \in 1..n : P(trace[i])})
Count(P(_)) == CountUpTo(Len(trace), P)

\* The codes captured and the lines printed, in order.
Captured == SelectSeq(trace, DataPoll)
Lines == SelectSeq(trace, Printed)

----------------------------------------------------------------------------
(* Claims on capture.py *)

\* C1: an empty poll is followed by exactly one wait and then by another
\* poll, with no arming and no output in between; a wait happens only
\* directly after an empty poll, so there are as many waits as empty polls
\* (one less only while the wait for the latest empty poll is still to come).
C1_EmptyPollWaitsThenPolls ==
    LET pending == trace # <<>> /\ EmptyPoll(Last) IN
    /\ \A i \in DOMAIN trace :
         EmptyPoll(trace[i]) =>
           /\ i + 1 <= Len(trace) => Wait(trace[i + 1])
           /\ i + 2 <= Len(trace) => Poll(trace[i + 2])
    /\ \A i \in DOMAIN trace :
         Wait(trace[i]) => i > 1 /\ EmptyPoll(trace[i - 1])
    /\ Count(Wait) = Count(EmptyPoll) - (IF pending THEN 1 ELSE 0)
    /\ ~dropped => (pending <=> pc = "sleep")

\* An empty poll after a capture, waited for and followed by a poll with data.
C1_Witness ==
    \E i \in DOMAIN trace :
      /\ EmptyPoll(trace[i])
      /\ CountUpTo(i, DataPoll) >= 1
      /\ i + 2 <= Len(trace)
      /\ Wait(trace[i + 1])
      /\ DataPoll(trace[i + 2])

\* C2: learning mode is armed once at start-up, right after authentication
\* and before the first poll, and once more per successful capture: the
\* enter_learning calls number the successful polls or one more, and exactly
\* one more at every poll.
C2_ArmedOncePerCapture ==
    /\ Count(Arm) \in {Count(DataPoll), Count(DataPoll) + 1}
    /\ \A i \in DOMAIN trace :
         Poll(trace[i]) => CountUpTo(i - 1, Arm) = CountUpTo(i - 1, DataPoll) + 1
    /\ \A i \in DOMAIN trace :
         (Arm(trace[i]) /\ CountUpTo(i - 1, Arm) = 0) =>
           /\ i > 1
           /\ trace[i - 1] = Ev("auth", <<>>, "ok")
           /\ CountUpTo(i, Poll) = 0
    /\ \A i \in DOMAIN trace :
         (Arm(trace[i]) /\ CountUpTo(i - 1, Arm) > 0) => Flushed(trace[i - 1])

\* A third poll, after two captures and three armings.
C2_Witness ==
    /\ trace # <<>>
    /\ Poll(Last)
    /\ CountUpTo(Len(trace) - 1, DataPoll) = 2
    /\ Count(Arm) = 3

\* C3: every poll that returns data gets exactly one line, its lowercase hex
\* rendering, written out before learning mode is armed again and before
\* the next poll; the lines are the captured codes in capture order, and
\* empty polls add none.
C3_OneFlushedLinePerCapture ==
    /\ Len(Lines) \in {Len(Captured), Len(Captured) - 1}
    /\ \A k \in DOMAIN Lines :
         /\ Lines[k].arg = JoinHex(Captured[k].arg)
         /\ Len(Lines[k].arg) = 2 * Len(Captured[k].arg)
         /\ Range(Lines[k].arg) \subseteq Range(HexLower)
    /\ \A i \in DOMAIN trace :
         (Arm(trace[i]) \/ Poll(trace[i])) =>
           /\ CountUpTo(i - 1, Printed) = CountUpTo(i - 1, DataPoll)
           /\ \A j \in 1..(i - 1) :
                Printed(trace[j]) => \E f \in (j + 1)..(i - 1) : Flushed(trace[f])
    /\ (~dropped /\ pc \in {"rearm", "check_data", "sleep"}) => stdoutbuf = <<>>

\* Two different codes captured and both lines written out, then a poll.
C3_Witness ==
    /\ Len(Captured) = 2
    /\ Len(Lines) = 2
    /\ Lines[1].arg # Lines[2].arg
    /\ Captured[1].arg # <<>>
    /\ \E i \in DOMAIN trace : EmptyPoll(trace[i])
    /\ pc = "check_data"

\* C4: a device call that raises anything but the storage-empty condition
\* ends the process there: it is the last call the process makes, no line
\* is written after it, and the process is left crashed with nothing more
\* to run.
C4_FatalErrorTerminates ==
    /\ \A i \in DOMAIN trace : Fatal(trace[i]) => i = Len(trace)
    /\ (~dropped /\ trace # <<>> /\ Fatal(Last)) =>
         /\ pc = "crashed"
         /\ exc = "DeviceIOError"
         /\ stdoutbuf = <<>>
    /\ pc = "crashed" => ~ENABLED NextCapture

\* A poll that failed after a code had been captured and printed.
C4_Witness ==
    /\ pc = "crashed"
    /\ trace # <<>>
    /\ Last = Ev("check_data", <<>>, "error")
    /\ Len(Lines) = 1
    /\ ~dropped

\* C5: the capture loop has no end of its own: the process never exits
\* normally and stops only on an exception raised by a device call, whatever
\* the number of captures and of consecutive empty polls; unless such an
\* exception ends it, it polls again and again.
C5_LoopNeverEnds ==
    /\ [](pc # "done")
    /\ [](pc = "crashed" => exc \in {"NetworkTimeoutError", "AuthenticationError",
                                      "DeviceIOError"})
    /\ ([]<><<CheckData>>_vars \/ <>(pc = "crashed"))

\* The loop still polling after more calls than the record holds, the last
\* recorded ones being empty polls and their waits.
C5_Witness ==
    /\ dropped
    /\ pc = "check_data"
    /\ Count(EmptyPoll) >= 4
    /\ Count(DataPoll) = 0

----------------------------------------------------------------------------
(* Claims on both scripts *)

\* C6: in both scripts authentication is attempted exactly once, right after
\* the device handle is obtained and before any other call; when it fails
\* the process ends at once, with no device call, no line read and nothing
\* written; every other device call is made with authentication done.
C6_AuthenticateFirstOrDie ==
    /\ \A i \in DOMAIN trace :
         /\ trace[i].op = "hello" => i = 1
         /\ trace[i].op = "auth" => i = 2 /\ trace[1] = Ev("hello", <<>>, "ok")
         /\ trace[i].op \notin {"hello", "auth"} =>
              i > 2 /\ trace[2] = Ev("auth", <<>>, "ok")
    /\ authed <=> (Len(trace) >= 2 /\ trace[2] = Ev("auth", <<>>, "ok"))
    /\ pc \in {"enter_learning", "check_data", "sleep", "hexdata", "print",
               "flush", "rearm", "readline", "fromhex", "send_data",
               "print_sent", "done"} => authed
    /\ (Len(trace) >= 2 /\ trace[2] = Ev("auth", <<>>, "error")) =>
         /\ Len(trace) = 2
         /\ pc = "crashed"
         /\ exc = "AuthenticationError"
         /\ pos = 0
         /\ stdoutbuf = <<>>
         /\ ~ENABLED Next

\* send.py with input waiting, ended by a failed authentication.
C6_Witness ==
    /\ script = "send"
    /\ stdin # <<>>
    /\ pc = "crashed"
    /\ exc = "AuthenticationError"
    /\ Len(trace) = 2

----------------------------------------------------------------------------
(* Claims on send.py *)

ReadCall(e) == e.op = "readline"
DecodeCall(e) == e.op = "fromhex"
DecodeFail(e) == e.op = "fromhex" /\ e.res = "ValueError"
SendCall(e) == e.op = "send_data"
SendOk(e) == e.op = "send_data" /\ e.res = "ok"
SendFail(e) == e.op = "send_data" /\ e.res = "error"
Confirmed(e) == e.op = "print" /\ e.arg = SentText

\* The byte sequences passed to send_data, in order.
Sends == SelectSeq(trace, SendCall)
\* The input lines that do not decode.
BadLines == {k \in DOMAIN stdin : ~FromHex(RStrip(stdin[k])).ok}

\* C7: lines are handled one at a time, in input order: the byte sequences
\* passed to send_data are the decodings of the first input lines, one call
\* per line, and line i+1 is read, stripped and decoded only after the send
\* of line i has returned and its confirmation has been written.
C7_SequentialInLineOrder ==
    /\ Len(Sends) <= pos
    /\ pos <= Len(stdin)
    /\ \A k \in DOMAIN Sends :
         /\ FromHex(RStrip(stdin[k])).ok
         /\ Sends[k].arg = FromHex(RStrip(stdin[k])).bytes
    /\ \A i \in DOMAIN trace :
         /\ ReadCall(trace[i]) =>
              LET k == CountUpTo(i - 1, ReadCall) IN
              /\ trace[i].arg = stdin[k + 1]
              /\ CountUpTo(i - 1, SendOk) = k
              /\ CountUpTo(i - 1, Confirmed) = k
         /\ DecodeCall(trace[i]) =>
              LET k == CountUpTo(i - 1, DecodeCall) IN
              /\ trace[i].arg = RStrip(stdin[k + 1])
              /\ ReadCall(trace[i - 1])
              /\ CountUpTo(i - 1, SendOk) = k
              /\ CountUpTo(i - 1, Confirmed) = k
         /\ SendCall(trace[i]) =>
              /\ DecodeCall(trace[i - 1])
              /\ CountUpTo(i, SendCall) = CountUpTo(i, DecodeCall)

\* Three lines with different codes, all sent, and a normal exit.
C7_Witness ==
    /\ pc = "done"
    /\ Len(Sends) = 3
    /\ Sends[1].arg # Sends[2].arg
    /\ Sends[2].arg # Sends[3].arg
    /\ Count(Confirmed) = 3

\* C8: a malformed line aborts the run: when line i is the first that does
\* not decode, lines 1..i-1 and no others have been sent and confirmed,
\* nothing but the write-out of buffered output follows the failed decode,
\* and the process ends on the ValueError with nothing more to run.
C8_MalformedLineAborts ==
    /\ \A j \in DOMAIN trace :
         DecodeFail(trace[j]) =>
           LET i == CountUpTo(j, DecodeCall) IN
           /\ i \in BadLines
           /\ \A k \in BadLines : i <= k
           /\ pos = i
           /\ Count(SendCall) = i - 1
           /\ Count(SendOk) = i - 1
           /\ Count(Confirmed) = i - 1
           /\ \A m \in (j + 1)..Len(trace) : Flushed(trace[m])
           /\ pc = "crashed"
           /\ exc = "ValueError"
           /\ stdoutbuf = <<>>
           /\ ~ENABLED NextSend
    /\ \A k \in BadLines : Len(Sends) < k
    /\ exc = "ValueError" => \E j \in DOMAIN trace : DecodeFail(trace[j])

\* A malformed second line of three: the first line sent, the third never.
C8_Witness ==
    /\ pc = "crashed"
    /\ exc = "ValueError"
    /\ Len(stdin) = 3
    /\ BadLines = {2}
    /\ Len(Sends) = 1
    /\ Count(Confirmed) = 1

\* C10: "Sent" is written once for each send_data call that returned, right
\* after it returned: there are as many confirmations as successful sends
\* (one less only while the confirmation of the send that just returned is
\* still to be printed).  A failed send is not confirmed and not retried, no
\* later line is sent, and the process ends on the error.
C10_OneConfirmationPerSend ==
    /\ \A i \in DOMAIN trace :
         /\ Confirmed(trace[i]) => i > 1 /\ SendOk(trace[i - 1])
         /\ (SendOk(trace[i]) /\ i < Len(trace)) => Confirmed(trace[i + 1])
         /\ Printed(trace[i]) => Confirmed(trace[i])
    /\ Count(Confirmed) = Count(SendOk) - (IF pc = "print_sent" THEN 1 ELSE 0)
    /\ pc = "print_sent" <=> (trace # <<>> /\ SendOk(Last))
    /\ Count(SendCall) \in {pos, pos - 1}
    /\ \A i \in DOMAIN trace :
         SendFail(trace[i]) =>
           /\ \A m \in (i + 1)..Len(trace) : Flushed(trace[m])
           /\ Count(SendCall) = pos
           /\ Count(Confirmed) = pos - 1
           /\ pc = "crashed"
           /\ exc = "DeviceIOError"
           /\ ~ENABLED NextSend

\* The second of three lines failed to send after the first was confirmed.
C10_Witness ==
    /\ pc = "crashed"
    /\ exc = "DeviceIOError"
    /\ Len(stdin) = 3
    /\ pos = 2
    /\ Count(SendOk) = 1
    /\ Count(SendFail) = 1
    /\ Count(Confirmed) = 1

----------------------------------------------------------------------------
(* Claims on the decoding of send.py, line 9 *)

\* The digits of the decoding runs and their values.
DigitOf == [c \in {"1", "a", "F"} |-> IF c = "1" THEN 1 ELSE IF c = "a" THEN 10 ELSE 15]
IsDigit(c) == c \in DOMAIN DigitOf
IsBlank(c) == c \in {" ", "\n"}

\* Every maximal run of digits in text t has even length.
DigitRunsEven(t) ==
    \A a \in DOMAIN t : \A b \in a..Len(t) :
      ( /\ \A n \in a..b : IsDigit(t[n])
        /\ (a = 1 \/ ~IsDigit(t[a - 1]))
        /\ (b = Len(t) \/ ~IsDigit(t[b + 1])) )
      => (b - a + 1) % 2 = 0

\* The bytes that the digits of text t spell, two digits a byte.
BytesOfDigits(t) ==
    LET d == SelectSeq(t, IsDigit) IN
    [k \in 1..(Len(d) \div 2) |-> 16 * DigitOf[d[2 * k - 1]] + DigitOf[d[2 * k]]]

----------------------------------------------------------------------------
(* Claims on the end of send.py *)

\* A call that raised an exception send.py does not catch.
Failure(e) == e.res \in {"error", "ValueError"}

\* C11: on every finite input send.py comes to an end; when every line
\* decodes and every call succeeds it ends normally at the end of the input
\* (exit code 0), having called send_data once per input line and written
\* one confirmation per input line, all of them written out.
C11_SendEndsAtEndOfInput ==
    /\ [](pc = "done" =>
            /\ exc = "none"
            /\ pos = Len(stdin)
            /\ BadLines = {}
            /\ Count(Failure) = 0
            /\ Count(ReadCall) = Len(stdin)
            /\ Count(SendCall) = Len(stdin)
            /\ Count(SendOk) = Len(stdin)
            /\ Count(Confirmed) = Len(stdin)
            /\ stdoutbuf = <<>>
            /\ (Len(stdin) > 0 => Flushed(Last)))
    /\ [](pc = "crashed" => (exc # "none" /\ Count(Failure) = 1))
    /\ [](Count(Failure) > 0 => pc = "crashed")
    /\ <>(pc = "done" \/ pc = "crashed")

\* Three lines, the last one spaced, all sent and confirmed, and exit 0.
C11_Witness ==
    /\ pc = "done"
    /\ exc = "none"
    /\ Len(stdin) = 3
    /\ stdin[3] = <<"1", "a", " ", "2", "b">> \o NL
    /\ Count(SendOk) = 3
    /\ Count(Confirmed) = 3

----------------------------------------------------------------------------
(* Claims on the hexadecimal text of a code *)

\* C12: the line capture.py prints for a byte sequence b, read by send.py,
\* decodes without error to exactly b, and send_data is called with b.
C12_PrintedLineDecodesToCode ==
    \A b \in HexCodes :
      stdin = <<JoinHex(ByteArray(b)) \o NL>> =>
        /\ pc \in {"send_data", "print_sent"} => data = b
        /\ exc # "ValueError"
        /\ \A i \in DOMAIN trace :
             /\ DecodeCall(trace[i]) =>
                  /\ trace[i].res = "ok"
                  /\ trace[i].arg = JoinHex(ByteArray(b))
             /\ SendCall(trace[i]) => trace[i].arg = b

\* The line ff000a, sent as the three bytes 0xff 0x00 0x0a.
C12_Witness ==
    /\ stdin = << <<"f", "f", "0", "0", "0", "a", "\n">> >>
    /\ \E i \in DOMAIN trace : trace[i] = Ev("send_data", <<255, 0, 10>>, "ok")

\* The lowercase form and the value of the digits of the letter-case runs.
LowerOf == [c \in CaseChars |-> IF c = "A" THEN "a" ELSE IF c = "F" THEN "f" ELSE c]
CaseValue == [c \in CaseChars |-> IF c = "0" THEN 0 ELSE IF c \in {"a", "A"} THEN 10 ELSE 15]
Lower(t) == [n \in DOMAIN t |-> LowerOf[t[n]]]

\* C13: decoding ignores letter case and rendering is lowercase: a text of
\* even length made of hexadecimal digits in any mix of cases decodes, to
\* the bytes its lowercase form decodes to, and those bytes render as the
\* lowercase form.
C13_CaseInsensitiveDecoding ==
    \A i \in DOMAIN trace :
      (DecodeCall(trace[i]) /\ Len(trace[i].arg) % 2 = 0) =>
        LET t == trace[i].arg IN
        /\ trace[i].res = "ok"
        /\ FromHex(Lower(t)).ok
        /\ i < Len(trace) =>
             /\ SendCall(trace[i + 1])
             /\ trace[i + 1].arg = FromHex(Lower(t)).bytes
             /\ trace[i + 1].arg =
                  [k \in 1..(Len(t) \div 2) |->
                     16 * CaseValue[t[2 * k - 1]] + CaseValue[t[2 * k]]]
             /\ JoinHex(ByteArray(trace[i + 1].arg)) = Lower(t)

\* The line FF00, sent as the bytes 0xff 0x00.
C13_Witness ==
    /\ stdin = << <<"F", "F", "0", "0", "\n">> >>
    /\ \E i \in DOMAIN trace : trace[i] = Ev("send_data", <<255, 0>>, "ok")

\* The lowercase hexadecimal digits and the number each stands for.
LowerDigits == {"0", "1", "2", "3", "4", "5", "6", "7", "8", "9",
                "a", "b", "c", "d", "e", "f"}
DigitNumber(c) ==
    CASE c = "0" -> 0 [] c = "1" -> 1 [] c = "2" -> 2 [] c = "3" -> 3
      [] c = "4" -> 4 [] c = "5" -> 5 [] c = "6" -> 6 [] c = "7" -> 7
      [] c = "8" -> 8 [] c = "9" -> 9 [] c = "a" -> 10 [] c = "b" -> 11
      [] c = "c" -> 12 [] c = "d" -> 13 [] c = "e" -> 14 [] c = "f" -> 15

\* Text h is the rendering of the bytes b: two lowercase digits a byte, the
\* high nibble first, in the order of b, and nothing else.
Renders(h, b) ==
    /\ Len(h) = 2 * Len(b)
    /\ \A n \in DOMAIN h : h[n] \in LowerDigits
    /\ \A k \in DOMAIN b :
         /\ DigitNumber(h[2 * k - 1]) = b[k] \div 16
         /\ DigitNumber(h[2 * k]) = b[k] % 16

\* C14: the text capture.py renders and prints for a byte sequence has two
\* characters a byte, all in 0-9a-f, each byte as two digits with the high
\* nibble first and padded with a zero, in byte order and with no separator.
C14_TwoLowercaseDigitsPerByte ==
    /\ pc \in {"print", "flush", "rearm"} => Renders(hexdata, data)
    /\ Len(Lines) <= 1
    /\ \A k \in DOMAIN Lines : Renders(Lines[k].arg, Captured[k].arg)

\* The bytes 0xff 0x00 0x0a printed as ff000a.
C14_Witness ==
    /\ data = <<255, 0, 10>>
    /\ hexdata = <<"f", "f", "0", "0", "0", "a">>
    /\ Len(Lines) = 1
    /\ Lines[1].arg = hexdata
    /\ pc = "rearm"

----------------------------------------------------------------------------
(* Claims on the output of capture.py *)

\* C15 as stated: every line capture.py writes is non-empty and made of
\* the characters 0-9a-f, whatever a successful poll returned.
C15_EveryLineNonEmptyHex ==
    \A k \in DOMAIN Lines :
      /\ Lines[k].arg # <<>>
      /\ \A n \in DOMAIN Lines[k].arg : Lines[k].arg[n] \in LowerDigits

\* C15, amended: every line capture.py writes is made of the characters
\* 0-9a-f only and has even length; it is empty exactly when the poll
\* returned a zero-length byte sequence, and non-empty otherwise.
C15_EveryLineHexPairs ==
    \A k \in DOMAIN Lines :
      /\ \A n \in DOMAIN Lines[k].arg : Lines[k].arg[n] \in LowerDigits
      /\ Len(Lines[k].arg) % 2 = 0
      /\ Lines[k].arg = <<>> <=> Captured[k].arg = <<>>

\* An empty line printed for a zero-length capture, after a two-byte code.
C15_Witness ==
    /\ Len(Lines) = 2
    /\ Captured[1].arg = <<26, 43>>
    /\ Lines[1].arg = <<"1", "a", "2", "b">>
    /\ Captured[2].arg = <<>>
    /\ Lines[2].arg = <<>>
    /\ pc = "check_data"

----------------------------------------------------------------------------
(* Claims on the states of the capture loop *)

ArmOk(e) == e.op = "enter_learning" /\ e.res = "ok"

\* The state of the capture loop at statement p.
PhaseAt(p) ==
    IF p \in {"hello", "auth", "enter_learning"} THEN "idle"
    ELSE IF p = "check_data" THEN "armed"
    ELSE IF p = "sleep" THEN "waiting"
    ELSE IF p \in {"hexdata", "print", "flush", "rearm"} THEN "captured"
    ELSE "ended"

LoopTransitions ==
    { <<"idle", "armed">>, <<"armed", "waiting">>, <<"waiting", "armed">>,
      <<"armed", "captured">>, <<"captured", "armed">> }

\* The device is armed: the latest of the arming and capturing calls is an
\* enter_learning call that returned.
ArmedBefore(i) ==
    \E j \in 1..(i - 1) :
      /\ ArmOk(trace[j])
      /\ \A m \in (j + 1)..(i - 1) : ~DataPoll(trace[m]) /\ ~Arm(trace[m])

\* C16: the device is polled only while armed: every check_data call comes
\* after an enter_learning call that no successful capture has followed yet,
\* so after a capture nothing is polled until learning mode is armed again.
\* The loop moves only idle -> armed, armed -> waiting -> armed and
\* armed -> captured -> armed; any other step is the end of the process on
\* an exception of a device call.
C16_PolledOnlyWhileArmed ==
    /\ [](/\ \A i \in DOMAIN trace : Poll(trace[i]) => ArmedBefore(i)
          /\ (~dropped /\ PhaseAt(pc) \in {"armed", "waiting"}) =>
               ArmedBefore(Len(trace) + 1)
          /\ (~dropped /\ PhaseAt(pc) \in {"idle", "captured"}) =>
               ~ArmedBefore(Len(trace) + 1))
    /\ [][PhaseAt(pc') # PhaseAt(pc) =>
            \/ <<PhaseAt(pc), PhaseAt(pc')>> \in LoopTransitions
            \/ /\ pc' = "crashed"
               /\ exc' # "none"
               /\ PhaseAt(pc) # "waiting"]_vars

\* The loop armed again after a capture that an empty poll and its wait
\* preceded.
C16_Witness ==
    /\ pc = "check_data"
    /\ ~dropped
    /\ ArmOk(Last)
    /\ Count(DataPoll) = 1
    /\ Count(Wait) = 1
    /\ Count(ArmOk) = 2

----------------------------------------------------------------------------
(* Claims on blank input lines *)

\* Line l is empty or holds whitespace only.
Blank(l) == \A n \in DOMAIN l : l[n] \in {" ", "\n"}

\* C17: a blank or whitespace-only input line is neither skipped nor
\* rejected: it decodes to the zero-length byte sequence, send_data is
\* called with that empty sequence, "Sent" is written when the call returns,
\* and the next line is handled after it.
C17_BlankLineSentAsEmpty ==
    /\ exc # "ValueError"
    /\ (pc \in {"send_data", "print_sent"} /\ Blank(line)) => data = <<>>
    /\ \A i \in DOMAIN trace :
         (ReadCall(trace[i]) /\ Blank(trace[i].arg)) =>
           /\ i + 1 <= Len(trace) => trace[i + 1] = Ev("fromhex", <<>>, "ok")
           /\ i + 2 <= Len(trace) =>
                SendCall(trace[i + 2]) /\ trace[i + 2].arg = <<>>
           /\ (i + 3 <= Len(trace) /\ SendOk(trace[i + 2])) =>
                Confirmed(trace[i + 3])
    /\ \A k \in DOMAIN Sends : Sends[k].arg = <<>> <=> Blank(stdin[k])
    /\ \A i \in DOMAIN trace :
         ReadCall(trace[i]) =>
           /\ CountUpTo(i - 1, SendOk) = CountUpTo(i - 1, ReadCall)
           /\ CountUpTo(i - 1, Confirmed) = CountUpTo(i - 1, ReadCall)
    /\ pc = "done" =>
         /\ Count(SendOk) = Len(stdin)
         /\ Count(Confirmed) = Len(stdin)

\* An empty line, a line of one space and a code, all three sent.
C17_Witness ==
    /\ pc = "done"
    /\ stdin = <<NL, <<" ">> \o NL, <<"1", "a", "2", "b">> \o NL>>
    /\ Len(Sends) = 3
    /\ Sends[1] = Ev("send_data", <<>>, "ok")
    /\ Sends[2] = Ev("send_data", <<>>, "ok")
    /\ Sends[3] = Ev("send_data", <<26, 43>>, "ok")
    /\ Count(Confirmed) = 3

====
